---------------------------- MODULE Spec2Model ----------------------------
(***************************************************************************)
(* Swingline (src/swingline.c): weighted Voronoi stippling on the GPU.     *)
(*                                                                         *)
(* The model follows main(): parse_args, the seeding loop of               *)
(* voronoi_instances, sum_new, then the update loop voronoi_draw ->        *)
(* sum_draw -> feedback_draw (interactive or batch), then the SVG export.  *)
(* The three shaders are operators over the textures and the point buffer. *)
(*                                                                         *)
(* Numbers.  Shader arithmetic on positions and weights is modelled in     *)
(* exact rationals (a record [nan, n, d], reduced, d > 0); the one place   *)
(* where the code truncates a float to an integer, the index decoding of   *)
(* sum_frag_src, is modelled in IEEE single precision (round to nearest    *)
(* even), because there the rounding decides the result.                   *)
(***************************************************************************)
EXTENDS Integers, Sequences, FiniteSets

(***************************************************************************)
(* Exact rationals                                                         *)
(***************************************************************************)
Abs(a) == IF a < 0 THEN -a ELSE a

RECURSIVE Gcd(_, _)
Gcd(a, b) == IF b = 0 THEN a ELSE Gcd(b, a % b)

Lcm(a, b) == (a \div Gcd(a, b)) * b

NaN == [nan |-> TRUE, n |-> 0, d |-> 1]

Rat(num, den) ==
    LET g == Gcd(Abs(num), Abs(den))
        s == IF den < 0 THEN -1 ELSE 1
    IN  [nan |-> FALSE, n |-> s * (num \div g), d |-> s * (den \div g)]

Zero == Rat(0, 1)
One  == Rat(1, 1)

RAdd(a, b) ==
    IF a.nan \/ b.nan THEN NaN
    ELSE LET l == Lcm(a.d, b.d)
         IN  Rat(a.n * (l \div a.d) + b.n * (l \div b.d), l)

RSub(a, b) == RAdd(a, [b EXCEPT !.n = -b.n])

\* both operands are reduced, so cancelling crosswise leaves a reduced product
RMul(a, b) ==
    IF a.nan \/ b.nan THEN NaN
    ELSE LET g1 == Gcd(Abs(a.n), b.d)
             g2 == Gcd(Abs(b.n), a.d)
         IN  [nan |-> FALSE, n |-> (a.n \div g1) * (b.n \div g2),
              d |-> (a.d \div g2) * (b.d \div g1)]

\* a / b for b # 0
RDiv(a, b) ==
    IF a.nan \/ b.nan THEN NaN
    ELSE RMul(a, IF b.n < 0 THEN [nan |-> FALSE, n |-> -b.d, d |-> -b.n]
                 ELSE [nan |-> FALSE, n |-> b.d, d |-> b.n])

\* a/b < c/d for a, c >= 0 and b, d > 0, by continued fractions: no product
\* is formed, so the comparison stays inside the integer range
RECURSIVE FracLess(_, _, _, _)
FracLess(a, b, c, d) ==
    LET qa == a \div b
        qc == c \div d
        ra == a % b
        rc == c % d
    IN  IF qa # qc THEN qa < qc
        ELSE IF rc = 0 THEN FALSE
        ELSE IF ra = 0 THEN TRUE
        ELSE FracLess(d, rc, b, ra)

\* a < b for non-negative rationals; a comparison with NaN is false
RLess(a, b) == ~a.nan /\ ~b.nan /\ FracLess(a.n, a.d, b.n, b.d)

RECURSIVE RSum(_, _, _)
\* f[lo] + ... + f[hi-1]
RSum(f, lo, hi) == IF lo >= hi THEN Zero ELSE RAdd(f[lo], RSum(f, lo + 1, hi))

(***************************************************************************)
(* IEEE single precision, non-negative values: [m, e] is m * 2^e with      *)
(* 2^23 <= m < 2^24, or m = 0.  Every operation rounds to nearest, ties to *)
(* even.  Used where the shaders convert between floats and integers.      *)
(***************************************************************************)
Pow2(k) == 2 ^ k

FZero == [m |-> 0, e |-> 0]

\* q with the dropped part rem (out of 2 * half) rounded to nearest even
RoundEven(q, rem, half) ==
    IF rem > half \/ (rem = half /\ q % 2 = 1) THEN q + 1 ELSE q

\* a mantissa that rounded up to 2^24 is renormalized to 2^23
FNorm(q, e) ==
    IF q = 16777216 THEN [m |-> 8388608, e |-> e + 1] ELSE [m |-> q, e |-> e]

\* long division num/den, one quotient bit at a time, until 24 bits are out
\* (the quotient has reached 2^23)
RECURSIVE LongDiv(_, _, _, _)
LongDiv(q, r, den, k) ==
    IF q >= 8388608 THEN <<q, r, k>>
    ELSE LongDiv(2 * q + ((2 * r) \div den), (2 * r) % den, den, k + 1)

\* float(c) / 255.0f for an integer 0 <= c <= 255
FDiv255(c) ==
    IF c = 0 THEN FZero
    ELSE LET t == LongDiv(c \div 255, c % 255, 255, 0)
         IN  FNorm(RoundEven(t[1], 2 * t[2], 255), -t[3])

\* x * 2^k, exact
FScale(x, k) == IF x.m = 0 THEN FZero ELSE [m |-> x.m, e |-> x.e + k]

\* x + y: the smaller operand is aligned with guard, round and sticky bits;
\* a sum of 2^27 or more (in eighths of an ulp) has carried into a 25th bit
FAdd(x, y) ==
    IF x.m = 0 THEN y
    ELSE IF y.m = 0 THEN x
    ELSE LET hi == IF x.e >= y.e THEN x ELSE y
             lo == IF x.e >= y.e THEN y ELSE x
             sh == hi.e - lo.e
         IN  IF sh > 26 THEN hi
             ELSE LET lo8    == 8 * lo.m
                      sticky == IF lo8 % Pow2(sh) # 0 THEN 1 ELSE 0
                      al     == lo8 \div Pow2(sh)
                      s      == 8 * hi.m + al + (IF al % 2 = 0 THEN sticky ELSE 0)
                  IN  IF s >= 134217728
                      THEN FNorm(RoundEven(s \div 16, s % 16, 8), hi.e + 1)
                      ELSE FNorm(RoundEven(s \div 8, s % 8, 4), hi.e)

\* 255.0f * x; the 32-bit product is kept as two halves
FMul255(x) ==
    IF x.m = 0 THEN FZero
    ELSE LET a  == 255 * (x.m \div 4096)
             b  == 255 * (x.m % 4096)
             q7 == 32 * a + (b \div 128)
         IN  IF q7 < 16777216
             THEN FNorm(RoundEven(q7, b % 128, 64), x.e + 7)
             ELSE FNorm(RoundEven(16 * a + (b \div 256), b % 256, 128), x.e + 8)

\* int(x): truncation toward zero
FTrunc(x) ==
    IF x.e >= 0 THEN x.m * Pow2(x.e)
    ELSE IF -x.e >= 24 THEN 0
    ELSE x.m \div Pow2(-x.e)

\* x rounded to the nearest integer (the conversion to a normalized byte)
FRound(x) ==
    IF x.e >= 0 THEN x.m * Pow2(x.e)
    ELSE IF -x.e > 24 THEN 0
    ELSE RoundEven(x.m \div Pow2(-x.e), x.m % Pow2(-x.e), Pow2(-x.e - 1))

(***************************************************************************)
(* Index encoding: voronoi_vert_src writes gl_InstanceID as a colour, the  *)
(* RGB8 texture v->tex stores it, sum_frag_src reads it back.              *)
(***************************************************************************)
\* voronoi_vert_src: r, g, b of an instance, each divided by 255.0f
InstanceColor(id) ==
    << FDiv255(id % 256), FDiv255((id \div 256) % 256), FDiv255((id \div 65536) % 256) >>

\* a colour written to the 8-bit normalized colour buffer: round(255 * c)
StoreRGB8(color) == [k \in 1..3 |-> FRound(FMul255(color[k]))]

\* glClearColor(0, 0, 0, 1): the texel of a pixel no cone covers
\* variant: a white clear colour
ClearTexelWhite == [k \in 1..3 |-> 255]

ClearTexel == [k \in 1..3 |-> 0]

\* sum_frag_src: int(255.0f * (t.r + (t.g * 256.0f) + (t.b * 65536.0f)))
TexelIndex(t) ==
    FTrunc(FMul255(FAdd(FAdd(FDiv255(t[1]), FScale(FDiv255(t[2]), 8)),
                        FScale(FDiv255(t[3]), 16))))

(***************************************************************************)
(* Bounds of the model                                                     *)
(***************************************************************************)
\* image sizes <<width, height>> the runs are drawn from
Dims == { <<2, 2>>, <<3, 2>> }

\* luminance values of the image's pixels (black and white)
Lum == {0, 255}

\* largest number of white pixels in an image
MaxWhite == 2

\* the images of a given size
Images(w, h) ==
    {im \in [0..(w * h - 1) -> Lum] :
        Cardinality({p \in 0..(w * h - 1) : im[p] = 255}) <= MaxWhite}

\* values of rand() % 256 tried by the seeding loop
RandBytes == {0, 128, 255}

\* largest -n (number of sites) and largest -i (batch iterations) tried
MaxSamples == 2
MaxIter == 2

\* interactive mode: frames after which the model stops starting new ones
MaxFrames == 2

\* 0.0 / 0.0 in a shader is an unspecified value: NaN on IEEE hardware,
\* 0 on hardware that flushes it
ZeroByZero == {NaN, Zero}

VARIABLES
    cfg,         \* Config: width, height, img, samples, iter, out
    pc,          \* where main() is
    buf,         \* voronoi_instances: the sites accepted so far (buf[0..i))
    pts,         \* v->pts: the site records {x, y, weight}
    tex,         \* v->tex: the id map, one RGB8 texel per pixel
    summed,      \* s->tex: the weighted-sum table, samples columns x height rows
    i,           \* main: the batch loop's counter
    passes,      \* number of feedback_draw calls completed so far
    closeEvent,  \* a window-close event is waiting in the event queue
    shouldClose, \* glfwWindowShouldClose(win)
    svg,         \* the circles written to the output file
    err,         \* the error a failed setup step printed before exit(-1)
    inst,        \* index codec alone: the gl_InstanceID under test
    texel,       \* index codec alone: the texel stored for it
    decoded      \* index codec alone: the index sum_frag_src decodes from it

pipe == << cfg, pc, buf, pts, tex, summed, i, passes, closeEvent, shouldClose,
          svg, err >>

codec == << inst, texel, decoded >>

vars == << pipe, codec >>

Width  == cfg.width
Height == cfg.height
Samples == cfg.samples
Interactive == cfg.iter = -1

\* config_set_aspect_ratio
ScaleX == IF Width > Height THEN One ELSE Rat(Height, Width)
ScaleY == IF Width > Height THEN Rat(Width, Height) ELSE One

\* parse_args: float r = 0.01f (no -r option given)
Radius == Rat(1, 100)

\* c->img[y*c->width + x]
Pixel(x, y) == cfg.img[y * Width + x]

Init ==
    /\ \E dim \in Dims, n \in 1..MaxSamples, it \in -1..MaxIter, o \in BOOLEAN :
         \E im \in Images(dim[1], dim[2]) :
            cfg = [width |-> dim[1], height |-> dim[2], img |-> im,
                   samples |-> n, iter |-> it, out |-> o]
    /\ pc = "context"
    /\ buf = << >>
    /\ pts = << >>
    /\ tex = << >>
    /\ summed = << >>
    /\ i = 0
    /\ passes = 0
    /\ closeEvent = FALSE
    /\ shouldClose = FALSE
    /\ svg = << >>
    /\ err = "none"
    /\ inst = -1
    /\ texel = ClearTexel
    /\ decoded = -1

(***************************************************************************)
(* Setup.  Every check of the setup either passes or prints its error and  *)
(* calls exit(-1); whether it passes is the GPU's and the driver's choice. *)
(***************************************************************************)
\* the checks of one setup step: with outcome "ok" main goes on at position
\* next, any other outcome is the error printed before exit(-1)
Checks(outcomes, next) ==
    /\ \E o \in outcomes :
         IF o = "ok" THEN pc' = next /\ err' = err
                     ELSE pc' = "exit" /\ err' = o
    /\ UNCHANGED << cfg, buf, pts, tex, summed, i, passes, closeEvent,
                    shouldClose, svg >>
    /\ UNCHANGED codec

\* make_context: glfwInit, glfwCreateWindow, the OpenGL version check
MakeContext ==
    /\ pc = "context"
    /\ Checks({"ok", "glfw", "window", "version"}, "seed")

(***************************************************************************)
(* voronoi_instances: rejection sampling of the initial sites              *)
(***************************************************************************)
SeedSite(x, y) == [x |-> Rat(2 * x + 1, 2 * Width),
                   y |-> Rat(2 * y + 1, 2 * Height),
                   z |-> Zero]

\* variant: the test is (rand() % 256) >= p
SeedDrawInclusive ==
    /\ pc = "seed"
    /\ Len(buf) < Samples
    /\ \E x \in 0..(Width - 1), y \in 0..(Height - 1), r \in RandBytes :
         buf' = IF r >= Pixel(x, y) THEN Append(buf, SeedSite(x, y)) ELSE buf
    /\ UNCHANGED << cfg, pc, pts, tex, summed, i, passes, closeEvent,
                    shouldClose, svg, err >>
    /\ UNCHANGED codec

\* one turn of the while loop: a candidate pixel and a draw
SeedDraw ==
    /\ pc = "seed"
    /\ Len(buf) < Samples
    /\ \E x \in 0..(Width - 1), y \in 0..(Height - 1), r \in RandBytes :
         buf' = IF r > Pixel(x, y) THEN Append(buf, SeedSite(x, y)) ELSE buf
    /\ UNCHANGED << cfg, pc, pts, tex, summed, i, passes, closeEvent,
                    shouldClose, svg, err >>
    /\ UNCHANGED codec

\* the loop is over: glBufferData uploads buf as v->pts, buf is freed
SeedUpload ==
    /\ pc = "seed"
    /\ Len(buf) = Samples
    /\ pts' = buf
    /\ buf' = << >>
    /\ pc' = "voronoi_new"
    /\ UNCHANGED << cfg, tex, summed, i, passes, closeEvent, shouldClose, svg, err >>
    /\ UNCHANGED codec

\* voronoi_new after voronoi_instances: the program is compiled and linked,
\* the textures and the framebuffer are created, fbo_check("voronoi")
VoronoiNew ==
    /\ pc = "voronoi_new"
    /\ Checks({"ok", "shader", "link", "fbo"}, "sum_new")

\* variant: a failed check prints its error and setup goes on
SumNewContinue ==
    /\ pc = "sum_new"
    /\ \E o \in {"ok", "fbo", "shader", "link"} :
         err' = IF o = "ok" THEN err ELSE o
    /\ pc' = "feedback_new"
    /\ UNCHANGED << cfg, buf, pts, tex, summed, i, passes, closeEvent,
                    shouldClose, svg >>
    /\ UNCHANGED codec

\* sum_new: the table's texture and framebuffer, fbo_check("sum"), then the
\* program is compiled and linked
SumNew ==
    /\ pc = "sum_new"
    /\ Checks({"ok", "fbo", "shader", "link"}, "feedback_new")

\* feedback_new: the shader is compiled, the program linked and checked
FeedbackNew ==
    /\ pc = "feedback_new"
    /\ Checks({"ok", "shader", "link"}, IF Interactive THEN "stipples_new" ELSE "loop")

\* interactive mode only: the blit program and stipples_new compile and link
\* the shaders of the preview
StipplesNew ==
    /\ pc = "stipples_new"
    /\ Checks({"ok", "shader", "link"}, "loop")

(***************************************************************************)
(* voronoi_draw: every site is drawn as a cone, the depth test keeps the   *)
(* nearest one.  The cone is taken as exactly circular (the code draws a   *)
(* 256-sided one) and the depth buffer as exact.                           *)
(***************************************************************************)
\* voronoi_vert_src, gl_Position: a cone vertex (t cos a, t sin a, 2t - 1) goes
\* to pos.xy * scale + 2 * offset - 1, so the fragment at the centre of pixel
\* (x, y) lies at t = 2 * |(centre - offset) / scale|; this is t squared
ConeT2(site, x, y) ==
    LET qx == RDiv(RSub(Rat(2 * x + 1, 2 * Width), site.x), ScaleX)
        qy == RDiv(RSub(Rat(2 * y + 1, 2 * Height), site.y), ScaleY)
    IN  RMul(Rat(4, 1), RAdd(RMul(qx, qx), RMul(qy, qy)))

\* the cone's base is at t = 1, depth 1.0: only t < 1 passes GL_LESS against
\* the cleared depth (glClearDepth(1.0f)); a cone at a NaN position is not drawn
Covers(t2) == RLess(t2, One)

\* the instance whose fragment survives at pixel (x, y): the smallest depth,
\* and among equal depths the instance drawn first; 0 when no cone covers it
Nearest(sites, x, y) ==
    LET frags == {<<k, ConeT2(sites[k], x, y)>> : k \in 1..Len(sites)}
        cover == {f \in frags : Covers(f[2])}
        win   == CHOOSE f \in cover : \A g \in cover \ {f} :
                    IF g[1] < f[1] THEN RLess(f[2], g[2]) ELSE ~RLess(g[2], f[2])
    IN  IF cover = {} THEN 0 ELSE win[1]

\* the colour buffer after glClear and glDrawArraysInstanced
VoronoiTex(sites) ==
    [p \in 1..(Width * Height) |->
        LET k == Nearest(sites, (p - 1) % Width, (p - 1) \div Width)
        IN  IF k = 0 THEN ClearTexel ELSE StoreRGB8(InstanceColor(k - 1))]

VoronoiDraw ==
    /\ pc = "voronoi"
    /\ tex' = VoronoiTex(pts)
    /\ pc' = "sum"
    /\ UNCHANGED << cfg, buf, pts, summed, i, passes, closeEvent, shouldClose, svg, err >>
    /\ UNCHANGED codec

(***************************************************************************)
(* sum_draw: one fragment per (site, row) of the weighted-sum table        *)
(***************************************************************************)
\* sum_frag_src: weight = 0.01f + 0.99f * (1.0f - texelFetch(img, coord, 0)[0])
Weight(x, y) ==
    RAdd(Rat(1, 100), RMul(Rat(99, 100), RSub(One, Rat(Pixel(x, y), 255))))

\* the id map: texel p of v->tex as sum_frag_src decodes it
RECURSIVE IdMapFrom(_, _)
IdMapFrom(t, p) ==
    IF p > Len(t) THEN << >> ELSE << TexelIndex(t[p]) >> \o IdMapFrom(t, p + 1)

IdMap(t) == IdMapFrom(t, 1)

\* sum_frag_src main(): the colour of fragment (my_index, y); ids is IdMap(tex)
SumFrag(ids, my_index, y) ==
    LET wt == [x \in 0..(Width - 1) |->
                 IF ids[y * Width + x + 1] = my_index THEN Weight(x, y) ELSE Zero]
        fx == [x \in 0..(Width - 1) |-> RMul(Rat(2 * x + 1, 2), wt[x])]
        fy == [x \in 0..(Width - 1) |-> RMul(Rat(2 * y + 1, 2), wt[x])]
        fz == [x \in 0..(Width - 1) |->
                 IF ids[y * Width + x + 1] = my_index THEN One ELSE Zero]
    IN  [x |-> RDiv(RSum(fx, 0, Width), Rat(Width, 1)),
         y |-> RDiv(RSum(fy, 0, Width), Rat(Height, 1)),
         z |-> RSum(fz, 0, Width),
         w |-> RSum(wt, 0, Width)]

\* s->tex is created with the internal format GL_RGBA (sum_new), an 8-bit
\* normalized format like v->tex: a component written to it is clamped to
\* [0, 1] and rounded to the nearest multiple of 1/255
ToUnorm8(v) ==
    IF ~RLess(v, One) THEN One
    ELSE Rat((2 * 255 * v.n + v.d) \div (2 * v.d), 255)

\* a fragment colour as s->tex keeps it
StoreSum(c) ==
    [x |-> ToUnorm8(c.x), y |-> ToUnorm8(c.y), z |-> ToUnorm8(c.z), w |-> ToUnorm8(c.w)]

\* s->tex after the quad is drawn: column s + 1, row y + 1
SumTex(t) ==
    LET ids == IdMap(t)
    IN  [s \in 1..Samples |->
            [y \in 1..Height |-> StoreSum(SumFrag(ids, s - 1, y - 1))]]

\* variant: the pass is abandoned when a close request is waiting
SumDrawAbort ==
    /\ pc = "sum"
    /\ IF closeEvent
       THEN summed' = summed /\ pc' = "export"
       ELSE summed' = SumTex(tex) /\ pc' = "feedback"
    /\ UNCHANGED << cfg, buf, pts, tex, i, passes, closeEvent, shouldClose, svg, err >>
    /\ UNCHANGED codec

SumDraw ==
    /\ pc = "sum"
    /\ summed' = SumTex(tex)
    /\ pc' = "feedback"
    /\ UNCHANGED << cfg, buf, pts, tex, i, passes, closeEvent, shouldClose, svg, err >>
    /\ UNCHANGED codec

(***************************************************************************)
(* feedback_draw: one vertex per site, captured into v->pts                *)
(***************************************************************************)
\* a / b in the shader; u is what this GPU gives for 0.0 / 0.0
ShaderDiv(a, b, u) == IF ~b.nan /\ b.n = 0 THEN u ELSE RDiv(a, b)

\* variant: the vertex reads the table's columns from the far end
FeedbackVertMirror(tbl, index, u) ==
    LET col    == tbl[Samples - index]
        posx   == RSum([y \in 0..(Height - 1) |-> col[y + 1].x], 0, Height)
        posy   == RSum([y \in 0..(Height - 1) |-> col[y + 1].y], 0, Height)
        weight == RSum([y \in 0..(Height - 1) |-> col[y + 1].w], 0, Height)
        count  == RSum([y \in 0..(Height - 1) |-> col[y + 1].z], 0, Height)
    IN  [x |-> ShaderDiv(posx, weight, u),
         y |-> ShaderDiv(posy, weight, u),
         z |-> ShaderDiv(weight, count, u)]

\* feedback_src main() for vertex `index`
FeedbackVert(tbl, index, u) ==
    LET col    == tbl[index + 1]
        posx   == RSum([y \in 0..(Height - 1) |-> col[y + 1].x], 0, Height)
        posy   == RSum([y \in 0..(Height - 1) |-> col[y + 1].y], 0, Height)
        weight == RSum([y \in 0..(Height - 1) |-> col[y + 1].w], 0, Height)
        count  == RSum([y \in 0..(Height - 1) |-> col[y + 1].z], 0, Height)
    IN  [x |-> ShaderDiv(posx, weight, u),
         y |-> ShaderDiv(posy, weight, u),
         z |-> ShaderDiv(weight, count, u)]

\* variant: only the first vertex is captured
FeedbackPtsFirst(tbl, u) ==
    [k \in 1..Samples |-> IF k = 1 THEN FeedbackVert(tbl, 0, u) ELSE pts[k]]

\* the transform feedback buffer after glDrawArrays(GL_POINTS, 0, samples)
FeedbackPts(tbl, u) == [k \in 1..Samples |-> FeedbackVert(tbl, k - 1, u)]

FeedbackDraw ==
    /\ pc = "feedback"
    /\ \E u \in ZeroByZero : pts' = FeedbackPts(summed, u)
    /\ passes' = passes + 1
    /\ IF Interactive
       THEN pc' = "preview" /\ i' = i
       ELSE pc' = "loop" /\ i' = i + 1
    /\ UNCHANGED << cfg, buf, tex, summed, closeEvent, shouldClose, svg, err >>
    /\ UNCHANGED codec

(***************************************************************************)
(* main: the update loop, the preview and the export                       *)
(***************************************************************************)
\* interactive: while (!glfwWindowShouldClose(win))
LoopInteractive ==
    /\ pc = "loop"
    /\ Interactive
    /\ IF shouldClose THEN pc' = "export"
       ELSE passes < MaxFrames /\ pc' = "voronoi"
    /\ UNCHANGED << cfg, buf, pts, tex, summed, i, passes, closeEvent,
                    shouldClose, svg, err >>
    /\ UNCHANGED codec

\* batch: for (int i=0; i < c->iter; ++i)
\* variant: the loop test is i <= c->iter
LoopBatchInclusive ==
    /\ pc = "loop"
    /\ ~Interactive
    /\ pc' = IF i <= cfg.iter THEN "voronoi" ELSE "export"
    /\ UNCHANGED << cfg, buf, pts, tex, summed, i, passes, closeEvent,
                    shouldClose, svg, err >>
    /\ UNCHANGED codec

LoopBatch ==
    /\ pc = "loop"
    /\ ~Interactive
    /\ pc' = IF i < cfg.iter THEN "voronoi" ELSE "export"
    /\ UNCHANGED << cfg, buf, pts, tex, summed, i, passes, closeEvent,
                    shouldClose, svg, err >>
    /\ UNCHANGED codec

\* interactive: the quad and the stipples are drawn from v->tex and v->pts,
\* then glfwSwapBuffers and glfwPollEvents, which delivers a waiting close event
PreviewDraw ==
    /\ pc = "preview"
    /\ shouldClose' = (shouldClose \/ closeEvent)
    /\ closeEvent' = FALSE
    /\ pc' = "loop"
    /\ UNCHANGED << cfg, buf, pts, tex, summed, i, passes, svg, err >>
    /\ UNCHANGED codec

\* the user asks the window to close
UserClose ==
    /\ pc \notin {"context", "done", "failed", "exit"}
    /\ ~closeEvent
    /\ closeEvent' = TRUE
    /\ UNCHANGED << cfg, pc, buf, pts, tex, summed, i, passes, shouldClose, svg, err >>
    /\ UNCHANGED codec

RMin(a, b) == IF RLess(b, a) THEN b ELSE a

\* one <circle cx cy r> of the SVG
Circle(site) ==
    [cx |-> RMul(Rat(Width, 1), site.x),
     cy |-> RSub(Rat(Height, 1), RMul(Rat(Height, 1), site.y)),
     r  |-> RMul(RMul(RMul(Radius, RMin(ScaleX, ScaleY)),
                      Rat(IF Width < Height THEN Width ELSE Height, 1)),
                 site.z)]

\* variant: the file is written whether or not a path was given
ExportAlways ==
    /\ pc = "export"
    /\ \E opened \in BOOLEAN :
          IF opened
          THEN svg' = [k \in 1..Samples |-> Circle(pts[k])] /\ pc' = "done"
          ELSE svg' = svg /\ pc' = "failed"
    /\ UNCHANGED << cfg, buf, pts, tex, summed, i, passes, closeEvent, shouldClose, err >>
    /\ UNCHANGED codec

\* if (c->out): fopen, header, one circle per site read back from v->pts
Export ==
    /\ pc = "export"
    /\ IF cfg.out
       THEN \E opened \in BOOLEAN :
               IF opened
               THEN svg' = [k \in 1..Samples |-> Circle(pts[k])] /\ pc' = "done"
               ELSE svg' = svg /\ pc' = "failed"
       ELSE svg' = svg /\ pc' = "done"
    /\ UNCHANGED << cfg, buf, pts, tex, summed, i, passes, closeEvent, shouldClose, err >>
    /\ UNCHANGED codec

Next ==
    \/ MakeContext
    \/ SeedDraw
    \/ SeedUpload
    \/ VoronoiNew
    \/ SumNew
    \/ FeedbackNew
    \/ StipplesNew
    \/ LoopInteractive
    \/ LoopBatch
    \/ VoronoiDraw
    \/ SumDraw
    \/ FeedbackDraw
    \/ PreviewDraw
    \/ UserClose
    \/ Export

Spec == Init /\ [][Next]_vars

(***************************************************************************)
(* The index codec alone: one instance id is written by voronoi_vert_src   *)
(* into an RGB8 texel and read back by sum_frag_src.                       *)
(***************************************************************************)
\* largest instance id tried, besides the ones listed in CodecIds
MaxIndex == 1100

\* ids at the edges of the three channels, up to 2^24 - 1
CodecIds == 0..MaxIndex \cup {65534, 65535, 65536, 65537, 16777215}

CodecInit ==
    /\ inst \in CodecIds
    /\ texel = ClearTexel
    /\ decoded = -1
    /\ cfg = [width |-> 1, height |-> 1, img |-> [p \in {0} |-> 0],
              samples |-> 1, iter |-> 0, out |-> FALSE]
    /\ pc = "codec"
    /\ buf = << >>
    /\ pts = << >>
    /\ tex = << >>
    /\ summed = << >>
    /\ i = 0
    /\ passes = 0
    /\ closeEvent = FALSE
    /\ shouldClose = FALSE
    /\ svg = << >>
    /\ err = "none"

\* the instance's colour reaches the colour buffer
CodecEncode ==
    /\ pc = "codec"
    /\ texel' = StoreRGB8(InstanceColor(inst))
    /\ pc' = "encoded"
    /\ UNCHANGED << cfg, buf, pts, tex, summed, i, passes, closeEvent, shouldClose,
                    svg, inst, decoded, err >>

\* the sum shader fetches the texel and computes the index
CodecDecode ==
    /\ pc = "encoded"
    /\ decoded' = TexelIndex(texel)
    /\ pc' = "decoded"
    /\ UNCHANGED << cfg, buf, pts, tex, summed, i, passes, closeEvent, shouldClose,
                    svg, inst, texel, err >>

CodecNext == CodecEncode \/ CodecDecode

CodecSpec == CodecInit /\ [][CodecNext]_vars

(***************************************************************************)
(* The seeding alone, on every black-and-white image, the fully white ones *)
(* included: voronoi_instances from its first draw to the upload.  The     *)
(* draws are fair (a draw that can be accepted is not missed for ever) and *)
(* main goes on when the loop is over.                                     *)
(***************************************************************************)
SeedInit ==
    /\ \E dim \in Dims, n \in 1..MaxSamples :
         \E im \in [0..(dim[1] * dim[2] - 1) -> Lum] :
            cfg = [width |-> dim[1], height |-> dim[2], img |-> im,
                   samples |-> n, iter |-> 0, out |-> FALSE]
    /\ pc = "seed"
    /\ buf = << >>
    /\ pts = << >>
    /\ tex = << >>
    /\ summed = << >>
    /\ i = 0
    /\ passes = 0
    /\ closeEvent = FALSE
    /\ shouldClose = FALSE
    /\ svg = << >>
    /\ err = "none"
    /\ inst = -1
    /\ texel = ClearTexel
    /\ decoded = -1

SeedNext == SeedDraw \/ SeedUpload

SeedSpec == SeedInit /\ [][SeedNext]_vars /\ WF_vars(SeedDraw) /\ WF_vars(SeedUpload)

(***************************************************************************)
(* Properties                                                              *)
(***************************************************************************)
\* the pixels (0-based, p = y * width + x) of the cell of site k (1-based),
\* as the id map in v->tex gives them
Cell(k) == {p \in 0..(Len(tex) - 1) : IdMap(tex)[p + 1] = k - 1}

\* a well-defined number in [0, 1]
InUnit(v) == ~v.nan /\ 0 <= v.n /\ v.n <= v.d

\* C1: after a pass of feedback_draw, every site whose cell holds no pixel
\* keeps the x, y it had before the pass, and that position is a number
ZeroWeightGuard ==
    [][ (pc = "feedback" /\ pc' # "feedback") =>
            \A k \in 1..Samples :
                Cell(k) = {} =>
                    /\ ~pts'[k].x.nan /\ ~pts'[k].y.nan
                    /\ pts'[k].x = pts[k].x
                    /\ pts'[k].y = pts[k].y ]_vars

\* C10: after seeding and after any number of iterations, every site record
\* has x, y and weight in [0, 1], all well-defined numbers
SiteRange ==
    \A k \in 1..Len(pts) : InUnit(pts[k].x) /\ InUnit(pts[k].y) /\ InUnit(pts[k].z)

\* squared distance, in pixels, from the centre of pixel (x, y) to a site
PixelDist2(site, x, y) ==
    LET dx == RSub(RMul(Rat(Width, 1), site.x), Rat(2 * x + 1, 2))
        dy == RSub(RMul(Rat(Height, 1), site.y), Rat(2 * y + 1, 2))
    IN  RAdd(RMul(dx, dx), RMul(dy, dy))

\* squared base radius of a cone, in pixels: (max(W, H) / 2)^2
BaseRadius2 == LET m == IF Width > Height THEN Width ELSE Height IN Rat(m * m, 4)

\* C5: after voronoi_draw, with every site inside the image, each pixel's
\* id-map value is the index of a site at minimal distance from the pixel
\* (pixels exactly on the base circle of a cone are left out: there the
\* depth equals the cleared depth and the 256-sided cone is not a circle)
NearestSite ==
    (pc = "sum" /\ \A k \in 1..Samples : InUnit(pts[k].x) /\ InUnit(pts[k].y)) =>
        \A x \in 0..(Width - 1), y \in 0..(Height - 1) :
            (\A k \in 1..Samples : PixelDist2(pts[k], x, y) # BaseRadius2) =>
                LET id == IdMap(tex)[y * Width + x + 1]
                IN  /\ id \in 0..(Samples - 1)
                    /\ \A k \in 1..Samples :
                          ~RLess(PixelDist2(pts[k], x, y), PixelDist2(pts[id + 1], x, y))

\* sum of weight(density[x, y]) over a set of pixels
RECURSIVE WeightOver(_)
WeightOver(ps) ==
    IF ps = {} THEN Zero
    ELSE LET p == CHOOSE q \in ps : TRUE
         IN  RAdd(Weight(p % Width, p \div Width), WeightOver(ps \ {p}))

\* column s of the weighted-sum table summed over all rows, as feedback does
ColumnW(s) == RSum([y \in 0..(Height - 1) |-> summed[s][y + 1].w], 0, Height)
ColumnZ(s) == RSum([y \in 0..(Height - 1) |-> summed[s][y + 1].z], 0, Height)

\* C7: after sum_draw, for every site s, column s of the table summed over
\* the rows holds the total weight of the pixels whose id-map value is s,
\* and their number
Conservation ==
    pc = "feedback" =>
        \A s \in 1..Samples :
            /\ ColumnW(s) = WeightOver(Cell(s))
            /\ ColumnZ(s) = Rat(Cardinality(Cell(s)), 1)

\* weighted sums of the pixel-centre coordinates over a set of pixels
RECURSIVE MomentX(_)
MomentX(ps) ==
    IF ps = {} THEN Zero
    ELSE LET p == CHOOSE q \in ps : TRUE
         IN  RAdd(RMul(Rat(2 * (p % Width) + 1, 2 * Width), Weight(p % Width, p \div Width)),
                  MomentX(ps \ {p}))

RECURSIVE MomentY(_)
MomentY(ps) ==
    IF ps = {} THEN Zero
    ELSE LET p == CHOOSE q \in ps : TRUE
         IN  RAdd(RMul(Rat(2 * (p \div Width) + 1, 2 * Height), Weight(p % Width, p \div Width)),
                  MomentY(ps \ {p}))

\* |a - b| <= b / 1000, for b >= 0 (the tolerance the specification allows)
Within(a, b) ==
    /\ ~a.nan
    /\ LET diff == RSub(a, b)
       IN  ~RLess(RMul(Rat(1, 1000), b), [diff EXCEPT !.n = Abs(diff.n)])

\* C8: after sum_draw and feedback_draw, every site with a non-empty cell
\* has the weighted centroid of its cell's pixel centres as position and
\* the cell's mean weight as weight
CentroidCorrect ==
    (pc \in {"loop", "preview"} /\ passes >= 1) =>
        \A k \in 1..Samples :
            Cell(k) # {} =>
                /\ Within(pts[k].x, RDiv(MomentX(Cell(k)), WeightOver(Cell(k))))
                /\ Within(pts[k].y, RDiv(MomentY(Cell(k)), WeightOver(Cell(k))))
                /\ Within(pts[k].z, RDiv(WeightOver(Cell(k)), Rat(Cardinality(Cell(k)), 1)))


\* C2: an iteration is voronoi_draw, then sum_draw, then feedback_draw, each
\* working on what the stage before it left; a new iteration starts only
\* from the loop test, and the loop is left and the close flag is read only
\* there, never inside an iteration
StageOrder ==
    [][ /\ (pc = "voronoi" /\ pc' # pc) => (pc' = "sum" /\ tex' = VoronoiTex(pts))
        /\ (pc = "sum" /\ pc' # pc) => (pc' = "feedback" /\ summed' = SumTex(tex))
        /\ (pc = "feedback" /\ pc' # pc) =>
               (pc' \in {"preview", "loop"} /\ passes' = passes + 1)
        /\ (pc = "preview" /\ pc' # pc) => pc' = "loop"
        /\ (pc' = "voronoi" /\ pc # pc') => pc = "loop"
        /\ (pc' = "sum" /\ pc # pc') => pc = "voronoi"
        /\ (pc' = "feedback" /\ pc # pc') => pc = "sum"
        /\ (pc' = "export" /\ pc # pc') => pc = "loop"
        /\ (shouldClose' # shouldClose) => pc = "preview"
        /\ (pc \in {"voronoi", "sum", "feedback"}) => pc' \notin {"export", "done", "failed"}
      ]_vars

\* a close request arrives in the middle of the second iteration, which goes on
StageOrderWitness ==
    pc = "feedback" /\ passes = 1 /\ closeEvent /\ Interactive /\ Samples = 2

\* the update loop has been left
Done == pc \in {"export", "done", "failed"}

\* steps of the batch loop that are still to come: four per iteration
\* (loop test, voronoi_draw, sum_draw, feedback_draw) and the last loop test
Rank ==
    4 * (cfg.iter - i) +
        (CASE pc = "loop" -> 4 [] pc = "voronoi" -> 3 [] pc = "sum" -> 2
           [] pc = "feedback" -> 1 [] OTHER -> 0)

\* the batch run is inside the update loop
InBatchLoop == ~Interactive /\ pc \in {"loop", "voronoi", "sum", "feedback"}

\* C3: in batch mode with iteration count k the loop is left after exactly
\* k passes, whether or not a close request came, and every step inside the
\* loop uses up one of the finitely many steps to come; in interactive mode
\* the loop is left only once a close request has been seen
LoopExit ==
    /\ [](~Interactive => passes <= cfg.iter /\ passes = i /\ ~shouldClose)
    /\ []((Done /\ ~Interactive) => passes = cfg.iter)
    /\ []((Done /\ Interactive) => shouldClose)
    /\ [](InBatchLoop => Rank > 0)
    /\ [][ (InBatchLoop /\ pc' # pc) => Rank' < Rank ]_vars

\* a batch run of two passes has ended although a close request is waiting
LoopExitWitness ==
    pc = "done" /\ cfg.iter = 2 /\ passes = 2 /\ closeEvent

\* column s of the weighted-sum table summed over all rows
ColumnX(s) == RSum([y \in 0..(Height - 1) |-> summed[s][y + 1].x], 0, Height)
ColumnY(s) == RSum([y \in 0..(Height - 1) |-> summed[s][y + 1].y], 0, Height)

\* C4: once seeded, v->pts always holds N records, it changes only in
\* feedback_draw, and feedback_draw writes every record k from column k of
\* the weighted-sum table
SoleWriter ==
    [][ /\ (pts' # pts) => pc \in {"seed", "feedback"}
        /\ (pts' # pts \/ pts # << >>) => Len(pts') = Samples
        /\ (pc = "feedback" /\ pc' # pc) =>
               \E u \in ZeroByZero :
                   \A k \in 1..Samples :
                       pts'[k] = [x |-> ShaderDiv(ColumnX(k), ColumnW(k), u),
                                  y |-> ShaderDiv(ColumnY(k), ColumnW(k), u),
                                  z |-> ShaderDiv(ColumnW(k), ColumnZ(k), u)]
      ]_vars

\* two sites with cells of their own have been moved twice and exported
SoleWriterWitness ==
    /\ pc = "done" /\ passes = 2 /\ Samples = 2 /\ svg # <<>>
    /\ Cell(1) # {} /\ Cell(2) # {}
    /\ pts[1] # pts[2]

\* C6: after voronoi_draw the id map has one texel per pixel and each decodes
\* to an index in [0, N), the texels no cone reached included
IdInRange ==
    tex # <<>> =>
        /\ Len(tex) = Width * Height
        /\ \A p \in 1..Len(tex) : IdMap(tex)[p] \in 0..(Samples - 1)

\* two sites, a pixel that no cone reaches and a pixel of the second site
IdInRangeWitness ==
    /\ pc = "sum" /\ Samples = 2
    /\ \E x \in 0..(Width - 1), y \in 0..(Height - 1) : Nearest(pts, x, y) = 0
    /\ \E p \in 1..Len(tex) : IdMap(tex)[p] = 1

\* C9: the index sum_frag_src decodes from the texel that voronoi_vert_src
\* wrote for instance id i is i, for every 0 <= i < 2^24
IndexRoundTrip == pc = "decoded" => decoded = inst

\* the positions of main at which a setup check is made
SetupPositions == {"context", "voronoi_new", "sum_new", "feedback_new", "stipples_new"}

\* C11: a failed setup check (shader compile, program link, framebuffer
\* completeness, OpenGL version) ends the process on the spot: it happens
\* only during setup, before any pass, and after it no pass is run, no
\* texture is drawn and no output is written
SetupFatal ==
    /\ [](err # "none" <=> pc = "exit")
    /\ [](pc = "exit" => passes = 0 /\ tex = << >> /\ summed = << >> /\ svg = << >>)
    /\ [][ /\ (err' # err) => (pc \in SetupPositions /\ pc' = "exit")
           /\ (pc = "exit") => (pc' = "exit" /\ passes' = passes /\ svg' = svg
                                /\ pts' = pts /\ tex' = tex)
         ]_vars

\* the framebuffer of sum_new is incomplete in a seeded interactive run
\* that was given an output path
SetupFatalWitness ==
    pc = "exit" /\ err = "fbo" /\ tex = << >> /\ Len(pts) = 2 /\ cfg.out /\ Interactive

\* C12: the output file is written at most once, after the update loop is
\* over, only when an output path was given, and then it holds one circle
\* per site, made from the site records as the last pass left them
ExportOnce ==
    [][ /\ (svg' # svg) =>
              /\ pc = "export" /\ pc' = "done"
              /\ svg = << >>
              /\ cfg.out
              /\ Len(svg') = Samples
              /\ \A k \in 1..Samples :
                    /\ svg'[k].cx = RMul(Rat(Width, 1), pts[k].x)
                    /\ svg'[k].cy = RSub(Rat(Height, 1), RMul(Rat(Height, 1), pts[k].y))
                    /\ svg'[k].r = Circle(pts[k]).r
        /\ (pc' = "export" /\ pc # "export") =>
              /\ pc = "loop"
              /\ IF Interactive THEN shouldClose ELSE i >= cfg.iter
        /\ (pc = "export") => (pc' \in {"export", "done", "failed"}
                                /\ pts' = pts /\ passes' = passes)
        /\ (pc \in {"done", "failed"}) => (pc' = pc /\ svg' = svg /\ pts' = pts
                                            /\ passes' = passes)
      ]_vars

\* an interactive run was closed after one frame and wrote two different circles
ExportOnceWitness ==
    /\ pc = "done" /\ Interactive /\ shouldClose /\ passes = 1
    /\ Len(svg) = 2 /\ svg[1] # svg[2]
\* the 2 x 2 checkerboard [[0, 255], [255, 0]] with two sites
Checkerboard ==
    /\ Width = 2 /\ Height = 2 /\ Samples = 2
    /\ cfg.img = [p \in 0..3 |-> IF p \in {0, 3} THEN 0 ELSE 255]

\* sites at (0.25, 0.25) and (0.75, 0.75)
DiagonalSites ==
    << [x |-> Rat(1, 4), y |-> Rat(1, 4), z |-> Zero],
       [x |-> Rat(3, 4), y |-> Rat(3, 4), z |-> Zero] >>

\* v lies in [lo, hi]
Between(v, lo, hi) == ~v.nan /\ ~RLess(v, lo) /\ ~RLess(hi, v)

\* C13: on the checkerboard with sites at (0.25, 0.25) and (0.75, 0.75), the
\* first iteration leaves site 0 with x and y in [0, 0.5], site 1 with x and
\* y in [0.5, 1], and both weights strictly positive
QuadrantScenario ==
    [][ (Checkerboard /\ pts = DiagonalSites /\ passes = 0
            /\ pc = "feedback" /\ pc' # pc) =>
            /\ Between(pts'[1].x, Zero, Rat(1, 2))
            /\ Between(pts'[1].y, Zero, Rat(1, 2))
            /\ Between(pts'[2].x, Rat(1, 2), One)
            /\ Between(pts'[2].y, Rat(1, 2), One)
            /\ RLess(Zero, pts'[1].z)
            /\ RLess(Zero, pts'[2].z)
      ]_vars

\* the first iteration on the checkerboard is over: site 1 owns the pixel
\* (1, 1) alone, which only the diagonal sites give, and the sites have
\* left the pixel centres
QuadrantScenarioWitness ==
    /\ Checkerboard /\ passes = 1 /\ pc = "preview"
    /\ Cell(2) = {3} /\ Cell(1) = {0, 1, 2}
    /\ pts[1].x # Rat(1, 4) /\ pts[2].x # Rat(3, 4)
\* every pixel of the image has luminance 255
AllWhite == \A p \in DOMAIN cfg.img : cfg.img[p] = 255

\* a record is the centre of a pixel of luminance below 255, with weight 0
DarkCentre(site) ==
    \E x \in 0..(Width - 1), y \in 0..(Height - 1) :
        site = SeedSite(x, y) /\ Pixel(x, y) < 255

\* C14: with fair draws the seeding loop ends with exactly N sites, each the
\* centre of a pixel and of weight 0, when some pixel is darker than 255; a
\* site is accepted only on a draw r > p of its pixel, so never on a white
\* pixel, and on a fully white image the loop never ends
SeedingTerminates ==
    /\ [](Len(buf) <= Samples /\ \A k \in 1..Len(buf) : DarkCentre(buf[k]))
    /\ [](pc # "seed" => (Len(pts) = Samples /\ \A k \in 1..Samples : DarkCentre(pts[k])))
    /\ [](AllWhite => (pc = "seed" /\ buf = << >> /\ pts = << >>))
    /\ [][ (buf' # buf /\ pc' = "seed") =>
              \E x \in 0..(Width - 1), y \in 0..(Height - 1), r \in RandBytes :
                  r > Pixel(x, y) /\ buf' = Append(buf, SeedSite(x, y)) ]_vars
    /\ ((pc = "seed" /\ ~AllWhite) ~> (pc = "voronoi_new"))

\* two sites were seeded on an image whose only dark pixel is the last one
SeedingTerminatesWitness ==
    /\ pc = "voronoi_new" /\ Samples = 2 /\ Len(pts) = 2
    /\ \A p \in DOMAIN cfg.img : (cfg.img[p] < 255) <=> (p = Width * Height - 1)

==========================================================================
